---- MODULE Spec2Model ----
(***************************************************************************)
(* WhisperChain on-chain program (program/src): the instruction processor  *)
(* and the Chat / Message account records it reads and writes.             *)
(*                                                                         *)
(* Accounts hold raw bytes, as on chain.  Every 64-bit field is kept as    *)
(* its 8 little-endian bytes, so u64/i64 arithmetic has its real width.    *)
(* The host (runtime, system program, sysvars) is modelled at the calls    *)
(* the processor makes to it.                                              *)
(***************************************************************************)
EXTENDS Integers, Sequences, FiniteSets, TLC

----------------------------------------------------------------------------
(* Bounds of the model *)

\* successful SendMessage calls explored in one behaviour
MaxSends == 2
\* lamports wallets 1 and 2 start with
InitialLamports == 2400
\* lamports wallet 3 starts with: too few for any deposit
DustLamports == 200
\* host rent: lamports per byte for rent exemption
LamportsPerByte == 2

----------------------------------------------------------------------------
(* Bytes and fixed-width integers *)

Byte == 0..255

Zeros(n) == [i \in 1..n |-> 0]

Fill(n, b) == [i \in 1..n |-> b]

\* bytes lo..hi of s (1-based, inclusive)
Slice(s, lo, hi) == SubSeq(s, lo, hi)

\* 8 little-endian bytes of a natural number below 2^31
U64(n) == [k \in 1..8 |-> CASE k = 1 -> n % 256
                             [] k = 2 -> (n \div 256) % 256
                             [] k = 3 -> (n \div 65536) % 256
                             [] k = 4 -> (n \div 16777216) % 256
                             [] OTHER -> 0]

\* 8 little-endian bytes (two's complement) of an integer of small magnitude
I64(x) == IF x >= 0 THEN U64(x) ELSE [k \in 1..8 |-> 255 - U64(-x - 1)[k]]

U64_MAX == Fill(8, 255)

\* u64 addition of one, with the carry out of the top byte
RECURSIVE AddOneFrom(_, _)
AddOneFrom(b, k) ==
    IF k > 8 THEN b
    ELSE IF b[k] = 255 THEN AddOneFrom([b EXCEPT ![k] = 0], k + 1)
    ELSE [b EXCEPT ![k] = b[k] + 1]

WrappingAddOne(b) == AddOneFrom(b, 1)

\* unsigned comparison of two 8-byte little-endian values, from the top byte
RECURSIVE LtFrom(_, _, _)
LtFrom(a, b, k) ==
    IF k = 0 THEN FALSE
    ELSE IF a[k] # b[k] THEN a[k] < b[k]
    ELSE LtFrom(a, b, k - 1)

U64Lt(a, b) == LtFrom(a, b, 8)

\* signed (i64) comparisons on the two's complement bytes
I64Neg(a) == a[8] >= 128

I64Lt(a, b) ==
    IF I64Neg(a) # I64Neg(b) THEN I64Neg(a) ELSE LtFrom(a, b, 8)

I64Ge(a, b) == ~I64Lt(a, b)

I64Gt(a, b) == I64Lt(b, a)

----------------------------------------------------------------------------
(* Keys and addresses *)

PUBKEY_BYTES == 32

\* Pubkey::default(): 32 zero bytes (also the system program's id)
Pubkey_default == Zeros(PUBKEY_BYTES)

TaggedKey(tag, n) == [i \in 1..PUBKEY_BYTES |-> IF i = 1 THEN tag ELSE IF i = 2 THEN n ELSE 0]

SystemProgramId == Pubkey_default

\* program_id: the address this program is deployed at
ProgramId == TaggedKey(254, 0)

ClockSysvarId == TaggedKey(253, 0)

\* a wallet: an address somebody holds the signing key of
UserKey(u) == TaggedKey(u, 0)

\* the wallets of the model: the one that opens the chat and two others
Users == {UserKey(1), UserKey(2), UserKey(3)}

\* 32-byte key-exchange keys callers supply
DhKey(k) == Fill(PUBKEY_BYTES, 16 + k)

SeedChat == <<99, 104, 97, 116>>

SeedMessage == <<109, 101, 115, 115, 97, 103, 101>>

SeedByte(s, i) == IF i >= 1 /\ i <= Len(s) THEN s[i] ELSE 0

\* Pubkey::find_program_address: a deterministic digest of the seeds that is
\* no wallet address (first byte 255: off the curve).  The digest folds the
\* seed bytes into 31 bytes with odd weights.
FindProgramAddress(seeds) ==
    [j \in 1..PUBKEY_BYTES |->
        IF j = 1 THEN 255
        ELSE (SeedByte(seeds, j - 1) + 3 * SeedByte(seeds, j + 30)
                + 5 * SeedByte(seeds, j + 61)) % 256]

ChatPda(initializer_key) == FindProgramAddress(SeedChat \o initializer_key)

MessagePda(chat_key, message_index) ==
    FindProgramAddress(SeedMessage \o chat_key \o message_index)

----------------------------------------------------------------------------
(* state.rs: the records and their borsh encoding *)

\* a limit one byte short of the documented one
MAX_MESSAGE_SIZE_short == 512 - 1

\* pub const MAX_MESSAGE_SIZE: usize = 512
MAX_MESSAGE_SIZE == 512

\* Chat::LEN
Chat_LEN == 1 + 32 + 32 + 32 + 32 + 8 + 8 + 8

\* Message::space
\* a size that forgets the length prefix of the vector
Message_space_no_prefix(data_size) == 1 + 32 + 32 + 8 + 8 + 8 + 32 + data_size

Message_space(data_size) == 1 + 32 + 32 + 8 + 8 + 8 + 32 + 4 + data_size

BoolByte(b) == IF b THEN 1 ELSE 0

\* a length prefix written most significant byte first
U32_big_endian(n) == <<0, (n \div 65536) % 256, (n \div 256) % 256, n % 256>>

\* u32 little-endian length prefix of a Vec<u8>
U32(n) == <<n % 256, (n \div 256) % 256, (n \div 65536) % 256, 0>>

\* BorshSerialize for Chat: the fields in declaration order
ChatSerialize(c) ==
    <<BoolByte(c.is_initialized)>> \o c.participant1 \o c.participant2
        \o c.participant1_public_key \o c.participant2_public_key
        \o c.created_at \o c.message_count \o c.last_message_at

\* Chat::try_from_slice: every byte must be consumed, a bool is 0 or 1
ChatTryFromSlice(d) ==
    IF Len(d) # 153 \/ d[1] > 1 THEN [ok |-> FALSE]
    ELSE [ok |-> TRUE,
          is_initialized |-> d[1] = 1,
          participant1 |-> Slice(d, 2, 33),
          participant2 |-> Slice(d, 34, 65),
          participant1_public_key |-> Slice(d, 66, 97),
          participant2_public_key |-> Slice(d, 98, 129),
          created_at |-> Slice(d, 130, 137),
          message_count |-> Slice(d, 138, 145),
          last_message_at |-> Slice(d, 146, 153)]

\* BorshSerialize for Message
MessageSerialize(m) ==
    <<BoolByte(m.is_initialized)>> \o m.chat \o m.sender \o m.index
        \o m.timestamp \o m.expires_at \o m.ephemeral_public_key
        \o U32(Len(m.encrypted_data)) \o m.encrypted_data

\* Message::try_from_slice: the length prefix must be followed by exactly
\* that many bytes, and nothing may be left over
MessageTryFromSlice(d) ==
    IF Len(d) < 125 THEN [ok |-> FALSE]
    ELSE IF d[1] > 1 THEN [ok |-> FALSE]
    ELSE IF d[124] # 0 \/ d[125] # 0 THEN [ok |-> FALSE]
    ELSE IF Len(d) # 125 + d[122] + 256 * d[123] THEN [ok |-> FALSE]
    ELSE [ok |-> TRUE,
          is_initialized |-> d[1] = 1,
          chat |-> Slice(d, 2, 33),
          sender |-> Slice(d, 34, 65),
          index |-> Slice(d, 66, 73),
          timestamp |-> Slice(d, 74, 81),
          expires_at |-> Slice(d, 82, 89),
          ephemeral_public_key |-> Slice(d, 90, 121),
          encrypted_data |-> Slice(d, 126, Len(d))]

\* a chat that admits every wallet
is_participant_anyone(chat, pubkey) == TRUE

\* Chat::is_participant
is_participant(chat, pubkey) ==
    chat.participant1 = pubkey \/ chat.participant2 = pubkey

\* Message::is_expired
is_expired(message, current_timestamp) ==
    /\ I64Gt(message.expires_at, I64(0))
    /\ I64Ge(current_timestamp, message.expires_at)

\* record.serialize(&mut &mut data[..]): the encoding overwrites the front
\* of the buffer; it fails when the buffer is too short
SerializeInto(buf, bytes) ==
    IF Len(bytes) > Len(buf) THEN [ok |-> FALSE]
    ELSE [ok |-> TRUE,
          data |-> [i \in 1..Len(buf) |-> IF i <= Len(bytes) THEN bytes[i] ELSE buf[i]]]

----------------------------------------------------------------------------
(* The host: account store, rent, system program *)

VARIABLES
    accounts,   \* address -> [lamports, data, owner]; absent = never funded
    clock,      \* the host's current unix time
    pc,         \* "idle": the host accepts a call; "returned": a result is out
    last,       \* the call just processed and what it returned
    sent,       \* history: chat address -> its successful sends since it was opened
    sends,      \* history: successful SendMessage calls so far
    token,      \* storage of the WhisperToken contract (examples/ink)
    probe       \* a record or a pair of times handed to the state.rs functions

vars == <<accounts, clock, pc, last, sent, sends, token, probe>>

\* the token contract is not deployed while the chat program is exercised
Undeployed == [total_supply |-> 0, balances |-> <<>>, allowances |-> <<>>]

\* nothing handed to the state.rs functions
NoProbe == [kind |-> "none", stage |-> "none"]

\* an address the host holds nothing for
EmptyAccount == [lamports |-> 0, data |-> <<>>, owner |-> SystemProgramId]

AccountAt(accts, key) == IF key \in DOMAIN accts THEN accts[key] ELSE EmptyAccount

PutAccount(accts, key, acct) ==
    [k \in DOMAIN accts \cup {key} |-> IF k = key THEN acct ELSE accts[k]]

\* Rent::minimum_balance: the host's deposit for an account of `space` bytes
\* (the host charges for 128 bytes of overhead on top of the data)
minimum_balance(space) == (128 + space) * LamportsPerByte

\* a result of the processor: the tag returned, the accounts as the handler
\* left them, whether it had written anything, and its log lines
Outcome(result, accts, wrote, logs) ==
    [result |-> result, accounts |-> accts, wrote |-> wrote, logs |-> logs]

\* a create_account that funds the new account without charging the payer
create_account_uncharged(accts, accs, from_key, to_key, lamports, space, owner) ==
    IF AccountAt(accts, to_key) # EmptyAccount
        THEN [ok |-> FALSE, err |-> "AccountAlreadyInUse"]
    ELSE IF lamports > AccountAt(accts, from_key).lamports
        THEN [ok |-> FALSE, err |-> "InsufficientFunds"]
    ELSE [ok |-> TRUE,
          accounts |-> PutAccount(accts, to_key,
                                  [lamports |-> lamports, data |-> Zeros(space),
                                   owner |-> owner])]

\* a create_account that allocates over whatever the address holds
create_account_overwriting(accts, accs, from_key, to_key, lamports, space, owner) ==
    LET from == AccountAt(accts, from_key)
    IN  IF lamports > from.lamports
            THEN [ok |-> FALSE, err |-> "InsufficientFunds"]
        ELSE [ok |-> TRUE,
              accounts |->
                PutAccount(
                    PutAccount(accts, from_key,
                               [from EXCEPT !.lamports = from.lamports - lamports]),
                    to_key,
                    [lamports |-> lamports, data |-> Zeros(space), owner |-> owner])]

\* a create_account that allocates anew at an address already in use
create_account_reallocating(accts, accs, from_key, to_key, lamports, space, owner) ==
    LET from == AccountAt(accts, from_key)
    IN  IF \A i \in 1..Len(accs) : accs[i].key # SystemProgramId
            THEN [ok |-> FALSE, err |-> "MissingAccount"]
        ELSE IF Len(from.data) > 0
            THEN [ok |-> FALSE, err |-> "InvalidArgument"]
        ELSE IF lamports > from.lamports
            THEN [ok |-> FALSE, err |-> "InsufficientFunds"]
        ELSE [ok |-> TRUE,
              accounts |->
                PutAccount(
                    PutAccount(accts, from_key,
                               [from EXCEPT !.lamports = from.lamports - lamports]),
                    to_key,
                    [lamports |-> lamports + AccountAt(accts, to_key).lamports,
                     data |-> Zeros(space), owner |-> owner])]

\* system_instruction::create_account through invoke_signed: the system
\* program must be among the call's accounts; the new address must be unused;
\* the payer must hold the deposit.  It changes nothing when it fails.
create_account(accts, accs, from_key, to_key, lamports, space, owner) ==
    LET from == AccountAt(accts, from_key)
        to == AccountAt(accts, to_key)
    IN  IF \A i \in 1..Len(accs) : accs[i].key # SystemProgramId
            THEN [ok |-> FALSE, err |-> "MissingAccount"]
        ELSE IF to.lamports > 0
            THEN [ok |-> FALSE, err |-> "AccountAlreadyInUse"]
        ELSE IF Len(to.data) > 0 \/ to.owner # SystemProgramId
            THEN [ok |-> FALSE, err |-> "AccountAlreadyInUse"]
        ELSE IF Len(from.data) > 0
            THEN [ok |-> FALSE, err |-> "InvalidArgument"]
        ELSE IF lamports > from.lamports
            THEN [ok |-> FALSE, err |-> "InsufficientFunds"]
        ELSE [ok |-> TRUE,
              accounts |->
                PutAccount(
                    PutAccount(accts, from_key,
                               [from EXCEPT !.lamports = from.lamports - lamports]),
                    to_key,
                    [lamports |-> lamports, data |-> Zeros(space), owner |-> owner])]

\* a close that forgets to credit the closed account's balance
checked_add_lamports_uncredited(a, b) == [ok |-> TRUE, value |-> a]

\* u64::checked_add on two balances: the host's whole lamport supply is below
\* 2^64, so the sum of two accounts' balances is always representable
checked_add_lamports(a, b) == [ok |-> TRUE, value |-> a + b]

----------------------------------------------------------------------------
(* processor.rs *)

\* a processor that accepts whatever address the caller supplies
pda_unchecked(derived, key) == TRUE

\* `derived != *account.key`: the supplied address is the derived one
pda_matches(derived, key) == derived = key

\* Processor::process_initialize_chat
process_initialize_chat(accts, accs, public_key, unix_timestamp) ==
    IF Len(accs) < 3 THEN Outcome("NotEnoughAccountKeys", accts, FALSE, <<>>)
    ELSE
    LET initializer == accs[1]
        chat_account == accs[2]
    IN  IF ~initializer.is_signer
            THEN Outcome("MissingRequiredSignature", accts, FALSE, <<>>)
        ELSE IF ~pda_matches(ChatPda(initializer.key), chat_account.key)
            THEN Outcome("InvalidAccountData", accts, FALSE,
                         <<"Error: Chat account is not the correct PDA">>)
        ELSE
        LET created == create_account(accts, accs, initializer.key, chat_account.key,
                                      minimum_balance(Chat_LEN), Chat_LEN, ProgramId)
        IN  IF ~created.ok THEN Outcome(created.err, accts, FALSE, <<>>)
            ELSE
            LET chat == [is_initialized |-> TRUE,
                         participant1 |-> initializer.key,
                         participant2 |-> Pubkey_default,
                         participant1_public_key |-> public_key,
                         participant2_public_key |-> Zeros(32),
                         created_at |-> unix_timestamp,
                         message_count |-> U64(0),
                         last_message_at |-> I64(0)]
                stored == SerializeInto(created.accounts[chat_account.key].data,
                                        ChatSerialize(chat))
            IN  IF ~stored.ok
                    THEN Outcome("BorshIoError", created.accounts, TRUE, <<>>)
                ELSE Outcome("Ok",
                             [created.accounts EXCEPT ![chat_account.key].data = stored.data],
                             TRUE, <<"Chat initialized successfully">>)

\* a processor that stores the counter back without adding one
increment_message_count_dropped(message_count, overflow_checks) ==
    [ok |-> TRUE, value |-> message_count]

\* chat.message_count += 1: a build with overflow checks aborts at the
\* maximum, a build without them wraps to 0
increment_message_count(message_count, overflow_checks) ==
    IF message_count = U64_MAX /\ overflow_checks
        THEN [ok |-> FALSE]
    ELSE [ok |-> TRUE, value |-> WrappingAddOne(message_count)]

\* a processor that records the second wallet but not its key
with_participant2_keyless(chat, sender_key, ephemeral_public_key) ==
    [chat EXCEPT !.participant2 = sender_key]

\* the first message from a second wallet sets it up as participant2
with_participant2(chat, sender_key, ephemeral_public_key) ==
    [chat EXCEPT !.participant2 = sender_key,
                 !.participant2_public_key = ephemeral_public_key]

\* Processor::process_send_message
process_send_message(accts, accs, encrypted_data, ephemeral_public_key, timestamp, expires_at, overflow_checks) ==
    IF Len(accs) < 4 THEN Outcome("NotEnoughAccountKeys", accts, FALSE, <<>>)
    ELSE
    LET sender == accs[1]
        chat_account == accs[2]
        message_account == accs[3]
    IN  IF ~sender.is_signer
            THEN Outcome("MissingRequiredSignature", accts, FALSE, <<>>)
        ELSE IF Len(encrypted_data) > MAX_MESSAGE_SIZE
            THEN Outcome("DataTooLarge", accts, FALSE, <<>>)
        ELSE IF AccountAt(accts, chat_account.key).owner # ProgramId
            THEN Outcome("InvalidAccountOwner", accts, FALSE, <<>>)
        ELSE
        LET stored_chat == ChatTryFromSlice(AccountAt(accts, chat_account.key).data)
        IN  IF ~stored_chat.ok THEN Outcome("BorshIoError", accts, FALSE, <<>>)
            ELSE IF ~stored_chat.is_initialized
                THEN Outcome("NotInitialized", accts, FALSE, <<>>)
            ELSE
            LET establishes == /\ stored_chat.participant2 = Pubkey_default
                               /\ stored_chat.participant1 # sender.key
                chat == IF establishes
                            THEN with_participant2(stored_chat, sender.key,
                                                   ephemeral_public_key)
                        ELSE stored_chat
            IN  IF ~establishes /\ ~is_participant(stored_chat, sender.key)
                    THEN Outcome("NotAuthorized", accts, FALSE, <<>>)
                ELSE
                LET message_index == chat.message_count
                IN  IF ~pda_matches(MessagePda(chat_account.key, message_index),
                                   message_account.key)
                        THEN Outcome("InvalidAccountData", accts, FALSE,
                                     <<"Error: Message account is not the correct PDA">>)
                    ELSE
                    LET space == Message_space(Len(encrypted_data))
                        created == create_account(accts, accs, sender.key,
                                                  message_account.key,
                                                  minimum_balance(space), space, ProgramId)
                    IN  IF ~created.ok THEN Outcome(created.err, accts, FALSE, <<>>)
                        ELSE
                        LET message == [is_initialized |-> TRUE,
                                        chat |-> chat_account.key,
                                        sender |-> sender.key,
                                        index |-> message_index,
                                        timestamp |-> timestamp,
                                        expires_at |-> expires_at,
                                        ephemeral_public_key |-> ephemeral_public_key,
                                        encrypted_data |-> encrypted_data]
                            stored_message ==
                                SerializeInto(created.accounts[message_account.key].data,
                                              MessageSerialize(message))
                        IN  IF ~stored_message.ok
                                THEN Outcome("BorshIoError", created.accounts, TRUE, <<>>)
                            ELSE
                            LET with_message ==
                                    [created.accounts EXCEPT
                                        ![message_account.key].data = stored_message.data]
                                next_count == increment_message_count(chat.message_count,
                                                                      overflow_checks)
                            IN  IF ~next_count.ok
                                    THEN Outcome("Panic", with_message, TRUE, <<>>)
                                ELSE
                                LET updated == [chat EXCEPT
                                                  !.message_count = next_count.value,
                                                  !.last_message_at = timestamp]
                                    stored_update ==
                                        SerializeInto(with_message[chat_account.key].data,
                                                      ChatSerialize(updated))
                                IN  IF ~stored_update.ok
                                        THEN Outcome("BorshIoError", with_message, TRUE, <<>>)
                                    ELSE Outcome("Ok",
                                            [with_message EXCEPT
                                                ![chat_account.key].data = stored_update.data],
                                            TRUE,
                                            <<"Message sent successfully">>)

\* a close that returns the lamports but leaves the record's bytes in place
close_account_keeping_data(accts, dest_key, closed_key, log) ==
    LET dest == AccountAt(accts, dest_key)
        closed == AccountAt(accts, closed_key)
        credited == PutAccount(accts, dest_key,
                               [dest EXCEPT !.lamports = dest.lamports + closed.lamports])
    IN  Outcome("Ok",
                PutAccount(credited, closed_key,
                           [credited[closed_key] EXCEPT !.lamports = 0]),
                TRUE, log)

\* a close that credits the requester and leaves the balance in the closed
\* account as well
close_account_not_drained(accts, dest_key, closed_key, log) ==
    LET dest == AccountAt(accts, dest_key)
        closed == AccountAt(accts, closed_key)
        credited == PutAccount(accts, dest_key,
                               [dest EXCEPT !.lamports = dest.lamports + closed.lamports])
    IN  Outcome("Ok",
                [credited EXCEPT ![closed_key].data = Zeros(Len(closed.data))],
                TRUE, log)

\* the closing steps shared by DeleteChat and DeleteMessage: credit the whole
\* balance of `closed_key` to `dest_key`, set it to 0, zero the data
close_account(accts, dest_key, closed_key, log) ==
    LET dest == AccountAt(accts, dest_key)
        closed == AccountAt(accts, closed_key)
        sum == checked_add_lamports(dest.lamports, closed.lamports)
    IN  IF ~sum.ok THEN Outcome("ArithmeticOverflow", accts, FALSE, <<>>)
        ELSE
        LET credited == PutAccount(accts, dest_key, [dest EXCEPT !.lamports = sum.value])
            drained == PutAccount(credited, closed_key,
                                  [credited[closed_key] EXCEPT !.lamports = 0])
            zeroed == [drained EXCEPT ![closed_key].data = Zeros(Len(closed.data))]
        IN  Outcome("Ok", zeroed, TRUE, log)

\* a DeleteChat that also closes every other record the program owns
process_delete_chat_cascading(accts, accs) ==
    IF Len(accs) < 2 THEN Outcome("NotEnoughAccountKeys", accts, FALSE, <<>>)
    ELSE IF ~accs[1].is_signer
        THEN Outcome("MissingRequiredSignature", accts, FALSE, <<>>)
    ELSE IF AccountAt(accts, accs[2].key).owner # ProgramId
        THEN Outcome("InvalidAccountOwner", accts, FALSE, <<>>)
    ELSE IF ~ChatTryFromSlice(AccountAt(accts, accs[2].key).data).ok
        THEN Outcome("BorshIoError", accts, FALSE, <<>>)
    ELSE IF ~ChatTryFromSlice(AccountAt(accts, accs[2].key).data).is_initialized
        THEN Outcome("NotInitialized", accts, FALSE, <<>>)
    ELSE IF ~is_participant(ChatTryFromSlice(AccountAt(accts, accs[2].key).data),
                            accs[1].key)
        THEN Outcome("NotAuthorized", accts, FALSE, <<>>)
    ELSE
    LET closed == close_account(accts, accs[1].key, accs[2].key,
                                <<"Chat deleted successfully">>)
    IN  [closed EXCEPT !.accounts =
            [k \in DOMAIN closed.accounts |->
                IF closed.accounts[k].owner = ProgramId
                    THEN [closed.accounts[k] EXCEPT
                            !.data = Zeros(Len(closed.accounts[k].data))]
                ELSE closed.accounts[k]]]

\* a DeleteChat that looks at the chat account's owner before the signer flag
process_delete_chat_owner_first(accts, accs) ==
    IF Len(accs) < 2 THEN Outcome("NotEnoughAccountKeys", accts, FALSE, <<>>)
    ELSE IF AccountAt(accts, accs[2].key).owner # ProgramId
        THEN Outcome("InvalidAccountOwner", accts, FALSE, <<>>)
    ELSE IF ~accs[1].is_signer
        THEN Outcome("MissingRequiredSignature", accts, FALSE, <<>>)
    ELSE IF ~ChatTryFromSlice(AccountAt(accts, accs[2].key).data).ok
        THEN Outcome("BorshIoError", accts, FALSE, <<>>)
    ELSE IF ~ChatTryFromSlice(AccountAt(accts, accs[2].key).data).is_initialized
        THEN Outcome("NotInitialized", accts, FALSE, <<>>)
    ELSE IF ~is_participant(ChatTryFromSlice(AccountAt(accts, accs[2].key).data),
                            accs[1].key)
        THEN Outcome("NotAuthorized", accts, FALSE, <<>>)
    ELSE close_account(accts, accs[1].key, accs[2].key,
                       <<"Chat deleted successfully">>)

\* Processor::process_delete_chat
process_delete_chat(accts, accs) ==
    IF Len(accs) < 2 THEN Outcome("NotEnoughAccountKeys", accts, FALSE, <<>>)
    ELSE
    LET participant == accs[1]
        chat_account == accs[2]
    IN  IF ~participant.is_signer
            THEN Outcome("MissingRequiredSignature", accts, FALSE, <<>>)
        ELSE IF AccountAt(accts, chat_account.key).owner # ProgramId
            THEN Outcome("InvalidAccountOwner", accts, FALSE, <<>>)
        ELSE
        LET chat == ChatTryFromSlice(AccountAt(accts, chat_account.key).data)
        IN  IF ~chat.ok THEN Outcome("BorshIoError", accts, FALSE, <<>>)
            ELSE IF ~chat.is_initialized
                THEN Outcome("NotInitialized", accts, FALSE, <<>>)
            ELSE IF ~is_participant(chat, participant.key)
                THEN Outcome("NotAuthorized", accts, FALSE, <<>>)
            ELSE close_account(accts, participant.key, chat_account.key,
                               <<"Chat deleted successfully">>)

\* Clock::from_account_info: the account must be the clock sysvar
clock_from_account_info(clock_account, unix_timestamp) ==
    IF clock_account.key # ClockSysvarId THEN [ok |-> FALSE]
    ELSE [ok |-> TRUE, unix_timestamp |-> unix_timestamp]

\* a processor that lets any signer delete a message
is_sender_anyone(message, pubkey) == TRUE

\* `message.sender != *sender.key`: only the sender can delete their message
is_sender(message, pubkey) == message.sender = pubkey

\* Processor::process_delete_message
process_delete_message(accts, accs, unix_timestamp) ==
    IF Len(accs) < 4 THEN Outcome("NotEnoughAccountKeys", accts, FALSE, <<>>)
    ELSE
    LET sender == accs[1]
        message_account == accs[2]
        chat_account == accs[3]
        clock_account == accs[4]
    IN  IF ~sender.is_signer
            THEN Outcome("MissingRequiredSignature", accts, FALSE, <<>>)
        ELSE IF AccountAt(accts, message_account.key).owner # ProgramId
            THEN Outcome("InvalidAccountOwner", accts, FALSE, <<>>)
        ELSE
        LET message == MessageTryFromSlice(AccountAt(accts, message_account.key).data)
        IN  IF ~message.ok THEN Outcome("BorshIoError", accts, FALSE, <<>>)
            ELSE IF ~message.is_initialized
                THEN Outcome("NotInitialized", accts, FALSE, <<>>)
            ELSE IF message.chat # chat_account.key
                THEN Outcome("InvalidAccountData", accts, FALSE, <<>>)
            ELSE IF ~is_sender(message, sender.key)
                THEN Outcome("NotAuthorized", accts, FALSE, <<>>)
            ELSE
            LET now == clock_from_account_info(clock_account, unix_timestamp)
            IN  IF ~now.ok THEN Outcome("InvalidArgument", accts, FALSE, <<>>)
                ELSE close_account(accts, sender.key, message_account.key,
                        IF is_expired(message, now.unix_timestamp)
                            THEN <<"Message expired, auto-deleting",
                                   "Message deleted successfully">>
                        ELSE <<"Message deleted successfully">>)

\* lib.rs process_instruction: dispatch on the instruction variant
process_instruction(accts, accs, instruction, unix_timestamp, overflow_checks) ==
    CASE instruction.tag = "InitializeChat" ->
            process_initialize_chat(accts, accs, instruction.public_key, unix_timestamp)
      [] instruction.tag = "SendMessage" ->
            process_send_message(accts, accs, instruction.encrypted_data,
                                 instruction.ephemeral_public_key,
                                 instruction.timestamp, instruction.expires_at,
                                 overflow_checks)
      [] instruction.tag = "DeleteChat" ->
            process_delete_chat(accts, accs)
      [] instruction.tag = "DeleteMessage" ->
            process_delete_message(accts, accs, unix_timestamp)

----------------------------------------------------------------------------
(* Calls the host can deliver *)

\* the host clock at the start of a behaviour, and the last value explored
ClockStart == 100

ClockEnd == ClockStart + 1

AccountMeta(key, is_signer) == [key |-> key, is_signer |-> is_signer]

\* an address a caller picked by hand: nothing is stored there
ManualKey == TaggedKey(200, 0)

NoCall == [instruction |-> [tag |-> "None"], accounts |-> <<>>,
           result |-> "None", wrote |-> FALSE, logs |-> <<>>]

ProgramOwned(accts) == {k \in DOMAIN accts : accts[k].owner = ProgramId}

\* the chat address callers derive: wallet 1 opens the chat
ChatKeys == {ChatPda(UserKey(1))}

\* accounts a caller may pass where a Chat account is expected
ChatCandidates(accts) == ChatKeys \cup ProgramOwned(accts)

\* the counter a caller reads from the chat account to derive the next address
StoredCount(accts, chat_key) ==
    LET d == AccountAt(accts, chat_key).data
    IN  IF Len(d) = Chat_LEN THEN Slice(d, 138, 145) ELSE U64(0)

\* the address a caller derives for the chat's next message
NextMessageKey(accts, chat_key) == MessagePda(chat_key, StoredCount(accts, chat_key))

\* the chat address the record at `message_key` names, which a caller of
\* DeleteMessage passes along with it
NamedChat(accts, message_key) ==
    LET d == AccountAt(accts, message_key).data
    IN  IF Len(d) >= 1 + PUBKEY_BYTES THEN {Slice(d, 2, 1 + PUBKEY_BYTES)} ELSE {}

\* the account list of a call as callers shape it: as documented and signed,
\* unsigned, with a wrong trailing account, or unsigned and without the
\* trailing account
Shapes == {"signed", "unsigned", "wrong_tail", "short"}

AccountList(metas, shape) ==
    CASE shape = "signed" -> [metas EXCEPT ![1].is_signer = TRUE]
      [] shape = "unsigned" -> metas
      [] shape = "wrong_tail" ->
            [metas EXCEPT ![1].is_signer = TRUE,
                          ![Len(metas)] = [key |-> ManualKey, is_signer |-> FALSE]]
      [] shape = "short" -> SubSeq(metas, 1, Len(metas) - 1)

\* the program takes any 32 bytes as a key-exchange key: this one has bytes
\* 24..27 that read as the little-endian u32 28
PrefixLikeKey ==
    [j \in 1..PUBKEY_BYTES |->
        IF j = 25 THEN Chat_LEN - Message_space(0)
        ELSE IF j \in 26..28 THEN 0
        ELSE 19]

\* SendMessage arguments callers supply
SendArguments ==
    {[tag |-> "SendMessage", encrypted_data |-> <<>>,
      ephemeral_public_key |-> DhKey(2),
      timestamp |-> I64(ClockStart), expires_at |-> I64(0)],
     [tag |-> "SendMessage", encrypted_data |-> Fill(MAX_MESSAGE_SIZE, 170),
      ephemeral_public_key |-> PrefixLikeKey,
      timestamp |-> I64(ClockStart + 1), expires_at |-> I64(ClockStart + 1)],
     [tag |-> "SendMessage", encrypted_data |-> Fill(MAX_MESSAGE_SIZE + 1, 170),
      ephemeral_public_key |-> DhKey(3),
      timestamp |-> I64(ClockStart), expires_at |-> I64(0)]}

\* whether a build with or without overflow checks behaves differently here
BuildProfiles(accts, chat_key) ==
    IF StoredCount(accts, chat_key) = U64_MAX THEN BOOLEAN ELSE {FALSE}

\* one call: the processor runs to completion; the host keeps its writes on
\* success and discards them on failure
Deliver(instruction, accs, outcome) ==
    /\ accounts' = IF outcome.result = "Ok" THEN outcome.accounts ELSE accounts
    /\ last' = [instruction |-> instruction, accounts |-> accs,
                result |-> outcome.result, wrote |-> outcome.wrote,
                logs |-> outcome.logs]
    /\ pc' = "returned"
    /\ clock' = clock

\* history of a chat address: the indices its successful sends wrote since
\* InitializeChat, and whether one of them came from another wallet than
\* participant1
Opened == [indices |-> <<>>, second |-> FALSE]

Recorded(history, chat_key) ==
    IF chat_key \in DOMAIN history THEN history[chat_key] ELSE Opened

Record(history, chat_key, entry) ==
    [k \in DOMAIN history \cup {chat_key} |->
        IF k = chat_key THEN entry ELSE history[k]]

Init ==
    /\ accounts = [u \in Users |->
                     [lamports |-> IF u = UserKey(3) THEN DustLamports
                                   ELSE InitialLamports,
                      data |-> <<>>, owner |-> SystemProgramId]]
    /\ clock = ClockStart
    /\ pc = "idle"
    /\ last = NoCall
    /\ sent = <<>>
    /\ sends = 0
    /\ token = Undeployed
    /\ probe = NoProbe

InitializeChat ==
    /\ pc = "idle"
    /\ UNCHANGED <<token, probe>>
    /\ \E initializer \in Users, chat_key \in ChatKeys \cup {ManualKey},
          shape \in Shapes :
        /\ shape \in {"wrong_tail", "short"} => chat_key = ChatPda(initializer)
        /\ LET instruction == [tag |-> "InitializeChat", public_key |-> DhKey(1)]
               accs == AccountList(<<AccountMeta(initializer, FALSE),
                                     AccountMeta(chat_key, FALSE),
                                     AccountMeta(SystemProgramId, FALSE)>>, shape)
               outcome == process_instruction(accounts, accs, instruction,
                                              I64(clock), FALSE)
           IN  /\ Deliver(instruction, accs, outcome)
               /\ sent' = IF outcome.result = "Ok"
                             THEN Record(sent, chat_key, Opened)
                          ELSE sent
               /\ sends' = sends

SendMessage ==
    /\ pc = "idle"
    /\ UNCHANGED <<token, probe>>
    /\ \E chat_key \in ChatKeys :
        \E message_key \in {NextMessageKey(accounts, chat_key), ManualKey},
           overflow_checks \in BuildProfiles(accounts, chat_key),
           sender \in Users, shape \in Shapes, instruction \in SendArguments :
        /\ shape # "signed" => message_key # ManualKey
        /\ LET accs == AccountList(<<AccountMeta(sender, FALSE),
                                     AccountMeta(chat_key, FALSE),
                                     AccountMeta(message_key, FALSE),
                                     AccountMeta(SystemProgramId, FALSE)>>, shape)
               outcome == process_instruction(accounts, accs, instruction,
                                              I64(clock), overflow_checks)
               before == Recorded(sent, chat_key)
           IN  /\ outcome.result = "Ok" => sends < MaxSends
               /\ Deliver(instruction, accs, outcome)
               /\ sends' = IF outcome.result = "Ok" THEN sends + 1 ELSE sends
               /\ sent' = IF outcome.result = "Ok"
                             THEN Record(sent, chat_key,
                                    [indices |->
                                        Append(before.indices,
                                               Slice(outcome.accounts[message_key].data,
                                                     66, 73)),
                                     second |->
                                        \/ before.second
                                        \/ sender # Slice(accounts[chat_key].data, 2, 33)])
                          ELSE sent

DeleteChat ==
    /\ pc = "idle"
    /\ UNCHANGED <<token, probe>>
    /\ \E participant \in Users, chat_key \in ChatCandidates(accounts),
          shape \in Shapes :
        /\ shape \in {"wrong_tail", "short"} => chat_key \in ChatKeys
        /\ LET instruction == [tag |-> "DeleteChat"]
               accs == AccountList(<<AccountMeta(participant, FALSE),
                                     AccountMeta(chat_key, FALSE)>>, shape)
               outcome == process_instruction(accounts, accs, instruction,
                                              I64(clock), FALSE)
           IN  /\ Deliver(instruction, accs, outcome)
               /\ UNCHANGED <<sent, sends>>

DeleteMessage ==
    /\ pc = "idle"
    /\ UNCHANGED <<token, probe>>
    /\ \E sender \in Users, message_key \in ProgramOwned(accounts) \cup {ManualKey},
          shape \in Shapes :
        \E chat_key \in ChatKeys \cup {ManualKey} \cup NamedChat(accounts, message_key) :
        /\ shape # "signed" => chat_key \in ChatKeys
        /\ LET instruction == [tag |-> "DeleteMessage"]
               accs == AccountList(<<AccountMeta(sender, FALSE),
                                     AccountMeta(message_key, FALSE),
                                     AccountMeta(chat_key, FALSE),
                                     AccountMeta(ClockSysvarId, FALSE)>>, shape)
               outcome == process_instruction(accounts, accs, instruction,
                                              I64(clock), FALSE)
           IN  /\ Deliver(instruction, accs, outcome)
               /\ UNCHANGED <<sent, sends>>

\* the host hands the result to the caller and is ready for the next call
HostReturn ==
    /\ pc = "returned"
    /\ UNCHANGED <<token, probe>>
    /\ pc' = "idle"
    /\ last' = NoCall
    /\ UNCHANGED <<accounts, clock, sent, sends>>

\* the end of a transaction: the host drops every account left with no
\* lamports, so its address holds nothing again
HostCollect ==
    /\ pc = "idle"
    /\ UNCHANGED <<token, probe>>
    /\ \E k \in DOMAIN accounts : accounts[k].lamports = 0
    /\ accounts' = [k \in {a \in DOMAIN accounts : accounts[a].lamports > 0} |->
                       accounts[k]]
    /\ UNCHANGED <<clock, pc, last, sent, sends>>

\* the host clock advances
Tick ==
    /\ pc = "idle"
    /\ UNCHANGED <<token, probe>>
    /\ clock < ClockEnd
    /\ clock' = clock + 1
    /\ UNCHANGED <<accounts, pc, last, sent, sends>>

Next ==
    \/ InitializeChat
    \/ SendMessage
    \/ DeleteChat
    \/ DeleteMessage
    \/ HostReturn
    \/ HostCollect
    \/ Tick

Spec == Init /\ [][Next]_vars

----------------------------------------------------------------------------
(* A chat near the end of the index range *)

\* message_count two sends before the counter would pass u64::MAX
CountNearMax == <<254>> \o Fill(7, 255)

\* wallet 1 opened the chat and has sent every message so far
InitOverflow ==
    /\ accounts =
         [k \in Users \cup ChatKeys |->
            IF k \in ChatKeys
                THEN [lamports |-> minimum_balance(Chat_LEN),
                      data |-> ChatSerialize(
                                 [is_initialized |-> TRUE,
                                  participant1 |-> UserKey(1),
                                  participant2 |-> Pubkey_default,
                                  participant1_public_key |-> DhKey(1),
                                  participant2_public_key |-> Zeros(32),
                                  created_at |-> I64(ClockStart),
                                  message_count |-> CountNearMax,
                                  last_message_at |-> I64(ClockStart)]),
                      owner |-> ProgramId]
            ELSE [lamports |-> CASE k = UserKey(1) ->
                                      InitialLamports - minimum_balance(Chat_LEN)
                                 [] k = UserKey(2) -> InitialLamports
                                 [] OTHER -> DustLamports,
                  data |-> <<>>, owner |-> SystemProgramId]]
    /\ clock = ClockStart
    /\ pc = "idle"
    /\ last = NoCall
    /\ sent = <<>>
    /\ sends = 0
    /\ token = Undeployed
    /\ probe = NoProbe

SpecOverflow == InitOverflow /\ [][Next]_vars

----------------------------------------------------------------------------
(* A chat that has been closed *)

\* wallet 1 opened its chat and deleted it again: the deposit is back and
\* the zeroed account is still in place
InitClosed ==
    /\ accounts =
         [k \in Users \cup ChatKeys |->
            IF k \in ChatKeys
                THEN [lamports |-> 0, data |-> Zeros(Chat_LEN), owner |-> ProgramId]
            ELSE [lamports |-> IF k = UserKey(3) THEN DustLamports
                               ELSE InitialLamports,
                  data |-> <<>>, owner |-> SystemProgramId]]
    /\ clock = ClockStart
    /\ pc = "idle"
    /\ last = NoCall
    /\ sent = <<>>
    /\ sends = 0
    /\ token = Undeployed
    /\ probe = NoProbe

SpecClosed == InitClosed /\ [][Next]_vars

----------------------------------------------------------------------------
(* The records and functions of state.rs on their own *)

\* Chat records handed to the encoder
ProbeChats ==
    [is_initialized : BOOLEAN,
     participant1 : {UserKey(1)},
     participant2 : {Pubkey_default, UserKey(2)},
     participant1_public_key : {DhKey(1)},
     participant2_public_key : {Zeros(32), DhKey(2)},
     created_at : {I64(0), I64(-1), I64(ClockStart)},
     message_count : {U64(0), U64(1), U64(256), CountNearMax, U64_MAX},
     last_message_at : {I64(0), I64(ClockStart)}]

\* Message records handed to the encoder
ProbeMessages ==
    [is_initialized : BOOLEAN,
     chat : {ChatPda(UserKey(1))},
     sender : {UserKey(1), UserKey(2)},
     index : {U64(0), U64(257), U64_MAX},
     timestamp : {I64(ClockStart)},
     expires_at : {I64(0), I64(-1), I64(ClockStart)},
     ephemeral_public_key : {DhKey(2)},
     encrypted_data : {<<>>, <<7>>, Fill(28, 1), Fill(MAX_MESSAGE_SIZE, 170)}]

\* expiry times and host times handed to is_expired
ProbeTimes == {-ClockStart - 1, -1, 0, 1, ClockStart, ClockStart + 1}

Probe(kind, record, expires_at, now) ==
    [kind |-> kind, stage |-> "input", record |-> record,
     encoded |-> <<>>, decoded |-> [ok |-> FALSE],
     expires_at |-> expires_at, now |-> now, expired |-> FALSE]

InitPure ==
    /\ accounts = <<>>
    /\ clock = ClockStart
    /\ pc = "idle"
    /\ last = NoCall
    /\ sent = <<>>
    /\ sends = 0
    /\ token = Undeployed
    /\ probe \in {Probe("chat", r, 0, 0) : r \in ProbeChats}
                 \cup {Probe("message", r, 0, 0) : r \in ProbeMessages}
                 \cup {Probe("expiry", <<>>, e, n) : e \in ProbeTimes, n \in ProbeTimes}

\* record.serialize(..)
Encode ==
    /\ probe.stage = "input"
    /\ probe.kind \in {"chat", "message"}
    /\ probe' = [probe EXCEPT
                    !.stage = "encoded",
                    !.encoded = IF probe.kind = "chat"
                                    THEN ChatSerialize(probe.record)
                                ELSE MessageSerialize(probe.record)]
    /\ UNCHANGED <<accounts, clock, pc, last, sent, sends, token>>

\* Record::try_from_slice(..)
Decode ==
    /\ probe.stage = "encoded"
    /\ probe' = [probe EXCEPT
                    !.stage = "decoded",
                    !.decoded = IF probe.kind = "chat"
                                    THEN ChatTryFromSlice(probe.encoded)
                                ELSE MessageTryFromSlice(probe.encoded)]
    /\ UNCHANGED <<accounts, clock, pc, last, sent, sends, token>>

\* message.is_expired(clock.unix_timestamp)
Expire ==
    /\ probe.stage = "input"
    /\ probe.kind = "expiry"
    /\ probe' = [probe EXCEPT
                    !.stage = "answered",
                    !.expired = is_expired([expires_at |-> I64(probe.expires_at)],
                                           I64(probe.now))]
    /\ UNCHANGED <<accounts, clock, pc, last, sent, sends, token>>

NextPure ==
    \/ Encode
    \/ Decode
    \/ Expire

SpecPure == InitPure /\ [][NextPure]_vars

-----------------------------------------------------------------------------
(* The WhisperToken contract, examples/ink/lib/lib.rs.  Balance is u128;   *)
(* balances never exceed total_supply, so no sum in the contract can wrap. *)

\* the supply handed to the constructor
TokenSupply == 2

\* the accounts of ink::env::test::default_accounts the tests use
TokenAccounts == {"alice", "bob", "charlie"}

\* the accounts approved as spenders
Spenders == {"bob"}

\* amounts around the balances that occur: nothing, a part, all, too much
TokenValues == {0, 1, TokenSupply, TokenSupply + 1}

\* Mapping::insert.  The contract reads a mapping through
\* get(..).unwrap_or(0) only, so a stored 0 and an absent key are one state:
\* the mapping holds the keys with a value other than 0.
MappingInsert(mapping, key, value) ==
    LET keys == IF value = 0 THEN (DOMAIN mapping) \ {key}
                ELSE (DOMAIN mapping) \cup {key}
    IN [k \in keys |-> IF k = key THEN value ELSE mapping[k]]

\* Mapping::get(..).unwrap_or(0)
MappingGetOrZero(mapping, key) ==
    IF key \in DOMAIN mapping THEN mapping[key] ELSE 0

\* what a message returns, the storage it leaves and the events it emits
Returned(result, storage, events) ==
    [result |-> result, storage |-> storage, events |-> events]

new(caller, total_supply) ==
    [total_supply |-> total_supply,
     balances |-> MappingInsert(<<>>, caller, total_supply),
     allowances |-> <<>>]

balance_of(self, owner) == MappingGetOrZero(self.balances, owner)

allowance(self, owner, spender) ==
    MappingGetOrZero(self.allowances, <<owner, spender>>)

\* transfer_from_to with the recipient's balance read before the sender's is
\* written
transfer_from_to_stale_read(self, from, to, value) ==
    LET from_balance == balance_of(self, from)
        to_balance == balance_of(self, to)
        debited == MappingInsert(self.balances, from, from_balance - value)
    IN IF from_balance < value
       THEN Returned("InsufficientBalance", self, <<>>)
       ELSE Returned("Ok",
                     [self EXCEPT !.balances =
                         MappingInsert(debited, to, to_balance + value)],
                     << [event |-> "Transfer", from |-> from, to |-> to,
                         value |-> value] >>)

transfer_from_to(self, from, to, value) ==
    LET from_balance == balance_of(self, from)
        debited == [self EXCEPT !.balances =
                       MappingInsert(self.balances, from, from_balance - value)]
        to_balance == balance_of(debited, to)
        credited == [debited EXCEPT !.balances =
                        MappingInsert(debited.balances, to, to_balance + value)]
    IN IF from_balance < value
       THEN Returned("InsufficientBalance", self, <<>>)
       ELSE Returned("Ok", credited,
                     << [event |-> "Transfer", from |-> from, to |-> to,
                         value |-> value] >>)

transfer(self, caller, to, value) == transfer_from_to(self, caller, to, value)

approve(self, caller, spender, value) ==
    Returned("Ok",
             [self EXCEPT !.allowances =
                 MappingInsert(self.allowances, <<caller, spender>>, value)],
             << [event |-> "Approval", owner |-> caller, spender |-> spender,
                 value |-> value] >>)

\* transfer_from that leaves the allowance as it was
transfer_from_allowance_kept(self, caller, from, to, value) ==
    IF allowance(self, from, caller) < value
    THEN Returned("InsufficientAllowance", self, <<>>)
    ELSE transfer_from_to(self, from, to, value)

transfer_from(self, caller, from, to, value) ==
    LET allowed == allowance(self, from, caller)
        moved == transfer_from_to(self, from, to, value)
    IN IF allowed < value
       THEN Returned("InsufficientAllowance", self, <<>>)
       ELSE IF moved.result # "Ok"
       THEN moved
       ELSE Returned("Ok",
                     [moved.storage EXCEPT !.allowances =
                         MappingInsert(moved.storage.allowances,
                                       <<from, caller>>, allowed - value)],
                     moved.events)

\* one message of the contract: the storage is what the message left, the
\* call and its result are kept in `last` until the caller has them
TokenCall(instruction, returned) ==
    /\ pc = "idle"
    /\ pc' = "returned"
    /\ token' = returned.storage
    /\ last' = [instruction |-> instruction, accounts |-> <<>>,
                result |-> returned.result,
                wrote |-> returned.storage # token,
                logs |-> returned.events]
    /\ UNCHANGED <<accounts, clock, sent, sends, probe>>

InitToken ==
    /\ accounts = [u \in Users |->
                     [lamports |-> IF u = UserKey(3) THEN DustLamports
                                   ELSE InitialLamports,
                      data |-> <<>>, owner |-> SystemProgramId]]
    /\ clock = ClockStart
    /\ pc = "idle"
    /\ last = NoCall
    /\ sent = <<>>
    /\ sends = 0
    /\ token = new("alice", TokenSupply)
    /\ probe = NoProbe

Transfer ==
    \E caller \in TokenAccounts, to \in TokenAccounts, value \in TokenValues :
        TokenCall([tag |-> "transfer", caller |-> caller, to |-> to,
                   value |-> value],
                  transfer(token, caller, to, value))

Approve ==
    \E caller \in TokenAccounts, spender \in Spenders, value \in TokenValues :
        TokenCall([tag |-> "approve", caller |-> caller, spender |-> spender,
                   value |-> value],
                  approve(token, caller, spender, value))

TransferFrom ==
    \E caller \in TokenAccounts, from \in TokenAccounts,
       to \in TokenAccounts, value \in TokenValues :
        TokenCall([tag |-> "transfer_from", caller |-> caller, from |-> from,
                   to |-> to, value |-> value],
                  transfer_from(token, caller, from, to, value))

NextToken ==
    \/ Transfer
    \/ Approve
    \/ TransferFrom
    \/ HostReturn

SpecToken == InitToken /\ [][NextToken]_vars

----------------------------------------------------------------------------
(* Vocabulary of the properties *)

\* this step is one call of instruction `tag`, from delivery to result
Called(tag) ==
    /\ pc = "idle"
    /\ pc' = "returned"
    /\ last'.instruction.tag = tag

\* the account list of the call has its `n` documented accounts and the
\* first of them signed
SignedBy(call, n) ==
    /\ Len(call.accounts) >= n
    /\ call.accounts[1].is_signer

\* the call failed with `err` and nothing was written, created or moved
Rejected(err) ==
    /\ last'.result = err
    /\ ~last'.wrote
    /\ accounts' = accounts

StoredChat(accts, key) == ChatTryFromSlice(AccountAt(accts, key).data)

\* `key` holds an initialized Chat record owned by the program
IsChat(accts, key) ==
    /\ AccountAt(accts, key).owner = ProgramId
    /\ StoredChat(accts, key).ok
    /\ StoredChat(accts, key).is_initialized

StoredMessage(accts, key) == MessageTryFromSlice(AccountAt(accts, key).data)

\* `key` holds an initialized Message record owned by the program
IsMessage(accts, key) ==
    /\ AccountAt(accts, key).owner = ProgramId
    /\ StoredMessage(accts, key).ok
    /\ StoredMessage(accts, key).is_initialized

\* `key` is neither stored participant of the chat
ThirdParty(accts, chat_key, key) ==
    /\ key # StoredChat(accts, chat_key).participant1
    /\ key # StoredChat(accts, chat_key).participant2

----------------------------------------------------------------------------
(* C1 *)

\* C1: while a chat opened by InitializeChat stays open, its message_count
\* equals the number N of successful SendMessage calls made on it since, and
\* the k-th of those sends (counting from 0) wrote a Message record whose
\* index is k.
C1_MessageCountEqualsSends ==
    \A c \in ChatKeys :
        IsChat(accounts, c) =>
            LET indices == Recorded(sent, c).indices
            IN  /\ StoredChat(accounts, c).message_count = U64(Len(indices))
                /\ \A k \in 1..Len(indices) : indices[k] = U64(k - 1)

\* two sends on one chat, one by each participant, both records still stored
C1_Witness ==
    \E c \in ChatKeys :
        /\ IsChat(accounts, c)
        /\ Len(Recorded(sent, c).indices) = 2
        /\ IsMessage(accounts, MessagePda(c, U64(0)))
        /\ IsMessage(accounts, MessagePda(c, U64(1)))
        /\ StoredMessage(accounts, MessagePda(c, U64(0))).sender
             # StoredMessage(accounts, MessagePda(c, U64(1))).sender

----------------------------------------------------------------------------
(* C2 *)

\* C2: a signed InitializeChat whose chat account is not the address derived
\* from ("chat", initializer), and a SendMessage that passes the checks
\* before the derivation (signed, data within the limit, initialized chat,
\* sender admitted) whose message account is not the address derived from
\* ("message", chat address, chat.message_count), fail with
\* InvalidAccountData; no account is created and nothing changes.
C2_MismatchedAddressRejected ==
    [][/\ ( /\ Called("InitializeChat")
            /\ SignedBy(last', 3)
            /\ last'.accounts[2].key # ChatPda(last'.accounts[1].key) )
          => Rejected("InvalidAccountData")
       /\ ( /\ Called("SendMessage")
            /\ SignedBy(last', 4)
            /\ Len(last'.instruction.encrypted_data) <= 512
            /\ IsChat(accounts, last'.accounts[2].key)
            /\ \/ StoredChat(accounts, last'.accounts[2].key).participant2
                    = Pubkey_default
               \/ ~ThirdParty(accounts, last'.accounts[2].key,
                              last'.accounts[1].key)
            /\ last'.accounts[3].key
                 # MessagePda(last'.accounts[2].key,
                              StoredChat(accounts, last'.accounts[2].key).message_count) )
          => Rejected("InvalidAccountData")
      ]_vars

\* a participant's SendMessage naming a hand-picked message address came back
\* with the derivation error
C2_Witness ==
    /\ pc = "returned"
    /\ last.instruction.tag = "SendMessage"
    /\ last.result = "InvalidAccountData"
    /\ last.accounts[3].key = ManualKey
    /\ IsChat(accounts, last.accounts[2].key)
    /\ ~ThirdParty(accounts, last.accounts[2].key, last.accounts[1].key)

----------------------------------------------------------------------------
(* C3 *)

\* C3: a SendMessage on a chat whose participant2 is established, and a
\* DeleteChat at any time, signed by a wallet that is neither the stored
\* participant1 nor the stored participant2 of the initialized chat, fails
\* with NotAuthorized and leaves the chat, every message and every balance
\* unchanged.
C3_ThirdPartyNotAuthorized ==
    [][/\ ( /\ Called("SendMessage")
            /\ SignedBy(last', 4)
            /\ Len(last'.instruction.encrypted_data) <= 512
            /\ IsChat(accounts, last'.accounts[2].key)
            /\ StoredChat(accounts, last'.accounts[2].key).participant2
                 # Pubkey_default
            /\ ThirdParty(accounts, last'.accounts[2].key, last'.accounts[1].key) )
          => Rejected("NotAuthorized")
       /\ ( /\ Called("DeleteChat")
            /\ SignedBy(last', 2)
            /\ IsChat(accounts, last'.accounts[2].key)
            /\ ThirdParty(accounts, last'.accounts[2].key, last'.accounts[1].key) )
          => Rejected("NotAuthorized")
      ]_vars

\* wallet 3 tried to send on a chat between wallets 1 and 2
C3_Witness ==
    /\ pc = "returned"
    /\ last.instruction.tag = "SendMessage"
    /\ last.result = "NotAuthorized"
    /\ last.accounts[1].key = UserKey(3)
    /\ StoredChat(accounts, last.accounts[2].key).participant1 = UserKey(1)
    /\ StoredChat(accounts, last.accounts[2].key).participant2 = UserKey(2)

----------------------------------------------------------------------------
(* C4 *)

\* C4: for an initialized chat, participant2 is the zero key exactly when no
\* successful SendMessage on it came from a sender other than participant1;
\* the first such send sets participant2 to that sender and
\* participant2_public_key to that message's ephemeral public key; and while
\* the chat stays initialized no operation changes an established
\* participant2.
C4_ParticipantTwoEstablishedOnce ==
    [][pc = "idle" =>
        \A c \in ChatKeys :
            /\ IsChat(accounts', c) =>
                 ( StoredChat(accounts', c).participant2 = Pubkey_default
                     <=> ~Recorded(sent', c).second )
            /\ ( /\ Called("SendMessage")
                 /\ last'.result = "Ok"
                 /\ last'.accounts[2].key = c
                 /\ StoredChat(accounts, c).participant2 = Pubkey_default
                 /\ last'.accounts[1].key # StoredChat(accounts, c).participant1 )
               => /\ StoredChat(accounts', c).participant2 = last'.accounts[1].key
                  /\ StoredChat(accounts', c).participant2_public_key
                       = last'.instruction.ephemeral_public_key
            /\ ( /\ IsChat(accounts, c)
                 /\ StoredChat(accounts, c).participant2 # Pubkey_default
                 /\ IsChat(accounts', c) )
               => StoredChat(accounts', c).participant2
                    = StoredChat(accounts, c).participant2
      ]_vars

\* wallet 2 joined with its first message and a later send went through: the
\* stored participant2 is still wallet 2
C4_Witness ==
    /\ pc = "returned"
    /\ last.instruction.tag = "SendMessage"
    /\ last.result = "Ok"
    /\ Len(Recorded(sent, last.accounts[2].key).indices) = 2
    /\ Recorded(sent, last.accounts[2].key).second
    /\ StoredChat(accounts, last.accounts[2].key).participant2 = UserKey(2)
    /\ StoredChat(accounts, last.accounts[2].key).message_count = U64(2)

----------------------------------------------------------------------------
(* C5 *)

\* C5: a signed DeleteMessage by the stored sender of an initialized,
\* program-owned Message, naming the chat address the message stores (and the
\* clock sysvar), succeeds: every byte of the message storage becomes zero,
\* the message account's balance becomes 0 and the sender's balance grows by
\* the whole former balance, whatever expires_at is relative to the host
\* clock.
C5_SenderDeleteAlwaysSucceeds ==
    [][( /\ Called("DeleteMessage")
         /\ SignedBy(last', 4)
         /\ last'.accounts[4].key = ClockSysvarId
         /\ IsMessage(accounts, last'.accounts[2].key)
         /\ StoredMessage(accounts, last'.accounts[2].key).chat
              = last'.accounts[3].key
         /\ StoredMessage(accounts, last'.accounts[2].key).sender
              = last'.accounts[1].key )
       => LET sender_key == last'.accounts[1].key
              message_key == last'.accounts[2].key
          IN  /\ last'.result = "Ok"
              /\ accounts'[message_key].data
                   = Zeros(Len(accounts[message_key].data))
              /\ accounts'[message_key].lamports = 0
              /\ accounts'[sender_key].lamports
                   = accounts[sender_key].lamports + accounts[message_key].lamports
              /\ \A k \in DOMAIN accounts \ {sender_key, message_key} :
                    accounts'[k] = accounts[k]
      ]_vars

\* a sender deleted a message of theirs whose expiry had passed: the record
\* is all zeros with no balance
C5_Witness ==
    /\ pc = "returned"
    /\ last.instruction.tag = "DeleteMessage"
    /\ last.result = "Ok"
    /\ last.logs[1] = "Message expired, auto-deleting"
    /\ accounts[last.accounts[2].key].lamports = 0
    /\ accounts[last.accounts[2].key].data
         = Zeros(Message_space(MAX_MESSAGE_SIZE))

----------------------------------------------------------------------------
(* C6 *)

\* C6: a signed DeleteMessage on an initialized, program-owned Message,
\* naming the chat address the message stores, by any wallet other than the
\* stored sender fails with NotAuthorized and changes no storage and no
\* balance; the other chat participant is refused too, expired message or
\* not.
C6_OnlyAuthorDeletes ==
    [][( /\ Called("DeleteMessage")
         /\ SignedBy(last', 4)
         /\ IsMessage(accounts, last'.accounts[2].key)
         /\ StoredMessage(accounts, last'.accounts[2].key).chat
              = last'.accounts[3].key
         /\ StoredMessage(accounts, last'.accounts[2].key).sender
              # last'.accounts[1].key )
       => Rejected("NotAuthorized")
      ]_vars

\* the other participant of the chat was refused the deletion of an expired
\* message
C6_Witness ==
    /\ pc = "returned"
    /\ last.instruction.tag = "DeleteMessage"
    /\ last.result = "NotAuthorized"
    /\ IsMessage(accounts, last.accounts[2].key)
    /\ IsChat(accounts, last.accounts[3].key)
    /\ ~ThirdParty(accounts, last.accounts[3].key, last.accounts[1].key)
    /\ is_expired(StoredMessage(accounts, last.accounts[2].key), I64(clock))

----------------------------------------------------------------------------
(* C7 *)

\* C7: a successful DeleteChat by participant1 or participant2 moves the chat
\* account's whole balance to the requester (the chat's balance becomes 0,
\* the requester's grows by exactly that amount) and sets every byte of the
\* chat storage to zero, so the record reads as uninitialized with no
\* participant, key or counter left.
C7_DeleteChatReturnsDepositAndZeroes ==
    [][( /\ Called("DeleteChat")
         /\ last'.result = "Ok"
         /\ IsChat(accounts, last'.accounts[2].key)
         /\ ~ThirdParty(accounts, last'.accounts[2].key, last'.accounts[1].key) )
       => LET requester == last'.accounts[1].key
              chat_key == last'.accounts[2].key
              closed == StoredChat(accounts', chat_key)
          IN  /\ accounts'[chat_key].lamports = 0
              /\ accounts'[requester].lamports
                   = accounts[requester].lamports + accounts[chat_key].lamports
              /\ accounts'[chat_key].data = Zeros(Chat_LEN)
              /\ closed.ok
              /\ ~closed.is_initialized
              /\ closed.participant1 = Pubkey_default
              /\ closed.participant2 = Pubkey_default
              /\ closed.participant1_public_key = Zeros(32)
              /\ closed.participant2_public_key = Zeros(32)
              /\ closed.message_count = U64(0)
      ]_vars

\* participant2 closed a chat that had messages: the deposit wallet 1 paid
\* is now in wallet 2's balance
C7_Witness ==
    /\ pc = "returned"
    /\ last.instruction.tag = "DeleteChat"
    /\ last.result = "Ok"
    /\ last.accounts[1].key = UserKey(2)
    /\ accounts[last.accounts[2].key].data = Zeros(Chat_LEN)
    /\ accounts[last.accounts[2].key].lamports = 0
    /\ Len(Recorded(sent, last.accounts[2].key).indices) > 0

----------------------------------------------------------------------------
(* C8 *)

\* C8: every InitializeChat, SendMessage, DeleteChat or DeleteMessage call
\* that does not succeed leaves every account's storage and balance as
\* before the call, and the processor had not written a field, created an
\* account or moved lamports before it failed.
C8_FailureWritesNothing ==
    [][( /\ pc = "idle"
         /\ pc' = "returned"
         /\ last'.result # "Ok" )
       => /\ accounts' = accounts
          /\ ~last'.wrote
      ]_vars

\* a SendMessage that created and filled its message account and then
\* aborted on the counter
C8_Witness ==
    /\ pc = "returned"
    /\ last.instruction.tag = "SendMessage"
    /\ last.result = "Panic"
    /\ last.wrote

----------------------------------------------------------------------------
(* C9 *)

\* C9: a signed SendMessage whose encrypted_data is longer than 512 bytes
\* fails with DataTooLarge whatever the chat and message accounts hold, and
\* changes nothing; a signed SendMessage with 0 to 512 bytes that meets the
\* other preconditions (initialized chat, sender admitted, message account at
\* the derived and still unused address, system program supplied, deposit
\* covered by the sender, counter below its maximum) succeeds.
C9_SizeLimit ==
    [][/\ ( /\ Called("SendMessage")
            /\ SignedBy(last', 4)
            /\ Len(last'.instruction.encrypted_data) > 512 )
          => Rejected("DataTooLarge")
       /\ ( /\ Called("SendMessage")
            /\ SignedBy(last', 4)
            /\ Len(last'.instruction.encrypted_data) <= 512
            /\ IsChat(accounts, last'.accounts[2].key)
            /\ \/ StoredChat(accounts, last'.accounts[2].key).participant2
                    = Pubkey_default
               \/ ~ThirdParty(accounts, last'.accounts[2].key,
                              last'.accounts[1].key)
            /\ StoredChat(accounts, last'.accounts[2].key).message_count # U64_MAX
            /\ last'.accounts[3].key
                 = MessagePda(last'.accounts[2].key,
                              StoredChat(accounts, last'.accounts[2].key).message_count)
            /\ AccountAt(accounts, last'.accounts[3].key) = EmptyAccount
            /\ last'.accounts[4].key = SystemProgramId
            /\ accounts[last'.accounts[1].key].lamports
                 >= minimum_balance(
                        Message_space(Len(last'.instruction.encrypted_data))) )
          => /\ last'.result = "Ok"
             /\ IsMessage(accounts', last'.accounts[3].key)
             /\ StoredMessage(accounts', last'.accounts[3].key).encrypted_data
                  = last'.instruction.encrypted_data
      ]_vars

\* a message of exactly 512 bytes was stored
C9_Witness ==
    /\ pc = "returned"
    /\ last.instruction.tag = "SendMessage"
    /\ last.result = "Ok"
    /\ Len(last.instruction.encrypted_data) = 512
    /\ Len(StoredMessage(accounts, last.accounts[3].key).encrypted_data) = 512

----------------------------------------------------------------------------
(* C10 *)

\* C10: a SendMessage on a chat whose message_count is u64::MAX fails and
\* leaves the chat and every other account unchanged; message_count never
\* goes from u64::MAX to 0.
C10_CounterFailsClosed ==
    [][( /\ Called("SendMessage")
         /\ Len(last'.accounts) >= 2
         /\ IsChat(accounts, last'.accounts[2].key)
         /\ StoredChat(accounts, last'.accounts[2].key).message_count = U64_MAX )
       => /\ last'.result # "Ok"
          /\ accounts' = accounts
          /\ StoredChat(accounts', last'.accounts[2].key).message_count # U64(0)
      ]_vars

\* a send went through at message_count = u64::MAX: the message carries
\* index u64::MAX and the chat's counter reads 0
C10_Witness ==
    /\ pc = "returned"
    /\ last.instruction.tag = "SendMessage"
    /\ last.result = "Ok"
    /\ StoredMessage(accounts, last.accounts[3].key).index = U64_MAX
    /\ StoredChat(accounts, last.accounts[2].key).message_count = U64(0)

----------------------------------------------------------------------------
(* C11 *)

\* the chat account at `key` has been closed or is gone: it is no
\* initialized Chat
ChatClosed(accts, key) == ~IsChat(accts, key)

----------------------------------------------------------------------------
(* C12 *)

\* the account at `key` is a closed record: still in place and owned by the
\* program, every byte zero
ClosedRecord(accts, key) ==
    /\ key \in DOMAIN accts
    /\ accts[key].owner = ProgramId
    /\ accts[key].data = Zeros(Len(accts[key].data))

\* C12 as claimed: the chat address closed by DeleteChat never holds an
\* initialized record again, whatever operations follow.
C12_ClosedNeverReopened ==
    \A c \in ChatKeys : ~IsChat(accounts, c)

\* C12 as amended: a record moves only forward while its account stays in
\* place.  An initialized Chat stays an initialized Chat or becomes a closed
\* record, an initialized Message stays an initialized Message or becomes a
\* closed record, and a closed record is not changed by any operation; only
\* once the host has removed the closed account can a record be created at
\* its address again.
C12_ForwardWhileInPlace ==
    [][\A k \in DOMAIN accounts :
        /\ ClosedRecord(accounts, k)
             => (k \notin DOMAIN accounts' \/ accounts'[k] = accounts[k])
        /\ (~ClosedRecord(accounts, k) /\ IsChat(accounts, k))
             => (IsChat(accounts', k) \/ ClosedRecord(accounts', k))
        /\ (~ClosedRecord(accounts, k) /\ IsMessage(accounts, k))
             => (IsMessage(accounts', k) \/ ClosedRecord(accounts', k))
      ]_vars

\* InitializeChat aimed at the closed chat account, still in place, was
\* refused by the host's account creation
C12_Witness ==
    /\ pc = "returned"
    /\ last.instruction.tag = "InitializeChat"
    /\ last.result = "AccountAlreadyInUse"
    /\ ClosedRecord(accounts, last.accounts[2].key)

----------------------------------------------------------------------------
(* C13 *)

\* C13: the zero-filled storage a successful DeleteChat or DeleteMessage
\* leaves reads as an uninitialized record, for every payload length: a
\* signed DeleteChat or SendMessage aimed at a closed chat account, and a
\* signed DeleteMessage aimed at a closed message account, still owned by
\* the program, fails with NotInitialized and changes nothing.
C13_ClosedReadsUninitialized ==
    [][/\ ( /\ Called("DeleteChat")
            /\ SignedBy(last', 2)
            /\ ClosedRecord(accounts, last'.accounts[2].key)
            /\ Len(accounts[last'.accounts[2].key].data) = Chat_LEN )
          => Rejected("NotInitialized")
       /\ ( /\ Called("SendMessage")
            /\ SignedBy(last', 4)
            /\ Len(last'.instruction.encrypted_data) <= 512
            /\ ClosedRecord(accounts, last'.accounts[2].key)
            /\ Len(accounts[last'.accounts[2].key].data) = Chat_LEN )
          => Rejected("NotInitialized")
       /\ ( /\ Called("DeleteMessage")
            /\ SignedBy(last', 4)
            /\ ClosedRecord(accounts, last'.accounts[2].key)
            /\ \E n \in 0..MAX_MESSAGE_SIZE :
                  Len(accounts[last'.accounts[2].key].data) = Message_space(n)
            /\ Len(accounts[last'.accounts[2].key].data) # Chat_LEN )
          => Rejected("NotInitialized")
      ]_vars

\* a second DeleteMessage on a closed message that had carried 512 bytes came
\* back with the decoder's error
C13_Witness ==
    /\ pc = "returned"
    /\ last.instruction.tag = "DeleteMessage"
    /\ last.result = "BorshIoError"
    /\ ClosedRecord(accounts, last.accounts[2].key)
    /\ Len(accounts[last.accounts[2].key].data) = Message_space(MAX_MESSAGE_SIZE)

----------------------------------------------------------------------------
(* C14 *)

\* the number of accounts each handler takes from the account list
AccountsTaken(tag) ==
    CASE tag = "InitializeChat" -> 3
      [] tag = "SendMessage" -> 4
      [] tag = "DeleteChat" -> 2
      [] tag = "DeleteMessage" -> 4

\* C14: each of the four operations, given its accounts, checks the signer
\* flag of the first account before any other check: when the flag is not
\* set the call fails with MissingRequiredSignature, whatever the other
\* accounts hold and whatever the arguments are, and changes nothing.
C14_SignerCheckedFirst ==
    [][( /\ pc = "idle"
         /\ pc' = "returned"
         /\ Len(last'.accounts) >= AccountsTaken(last'.instruction.tag)
         /\ ~last'.accounts[1].is_signer )
       => Rejected("MissingRequiredSignature")
      ]_vars

\* an unsigned SendMessage with oversized data on an address that holds no
\* chat was refused for the missing signature
C14_Witness ==
    /\ pc = "returned"
    /\ last.instruction.tag = "SendMessage"
    /\ last.result = "MissingRequiredSignature"
    /\ Len(last.accounts) = 4
    /\ Len(last.instruction.encrypted_data) > MAX_MESSAGE_SIZE
    /\ ~IsChat(accounts, last.accounts[2].key)

----------------------------------------------------------------------------
(* C15 *)

\* C15: a successful InitializeChat by initializer I with key K creates the
\* account at the address derived from ("chat", I), with exactly Chat::LEN
\* bytes, owned by the program and funded from I with the host's minimum
\* balance for that size; the record stored is initialized, participant1 =
\* I, participant2 = zero key, participant1_public_key = K,
\* participant2_public_key = zero, created_at = the host's current time,
\* message_count = 0 and last_message_at = 0.
C15_InitializeChatEffect ==
    [][( /\ Called("InitializeChat")
         /\ last'.result = "Ok" )
       => LET initializer == last'.accounts[1].key
              chat_key == last'.accounts[2].key
              chat == StoredChat(accounts', chat_key)
          IN  /\ chat_key = ChatPda(initializer)
              /\ chat_key \notin DOMAIN accounts
              /\ Len(accounts'[chat_key].data) = Chat_LEN
              /\ accounts'[chat_key].owner = ProgramId
              /\ accounts'[chat_key].lamports = minimum_balance(Chat_LEN)
              /\ accounts'[initializer].lamports
                   = accounts[initializer].lamports - minimum_balance(Chat_LEN)
              /\ \A k \in DOMAIN accounts \ {initializer} :
                    accounts'[k] = accounts[k]
              /\ chat.ok
              /\ chat.is_initialized
              /\ chat.participant1 = initializer
              /\ chat.participant2 = Pubkey_default
              /\ chat.participant1_public_key = last'.instruction.public_key
              /\ chat.participant2_public_key = Zeros(32)
              /\ chat.created_at = I64(clock)
              /\ chat.message_count = U64(0)
              /\ chat.last_message_at = I64(0)
      ]_vars

\* a chat opened after the host clock had advanced carries the later time
C15_Witness ==
    /\ pc = "returned"
    /\ last.instruction.tag = "InitializeChat"
    /\ last.result = "Ok"
    /\ clock = ClockEnd
    /\ StoredChat(accounts, last.accounts[2].key).created_at = I64(ClockEnd)
    /\ StoredChat(accounts, last.accounts[2].key).participant1 = UserKey(1)

----------------------------------------------------------------------------
(* C16 *)

\* C16: decoding the encoding of a Chat record or of a Message record gives
\* the record back, field by field, Messages with 0 and with 512 bytes of
\* encrypted_data included.
C16_RoundTrip ==
    probe.stage = "decoded" =>
        /\ probe.decoded.ok
        /\ [f \in DOMAIN probe.record |-> probe.decoded[f]] = probe.record

\* a Message with 512 bytes of data came back from its encoding
C16_Witness ==
    /\ probe.stage = "decoded"
    /\ probe.kind = "message"
    /\ Len(probe.record.encrypted_data) = 512
    /\ probe.decoded.ok
    /\ probe.decoded.encrypted_data = probe.record.encrypted_data

----------------------------------------------------------------------------
(* C17 *)

\* C17: the encoding of any Chat record is exactly Chat::LEN bytes, and the
\* encoding of any Message record with n bytes of encrypted_data is exactly
\* Message::space(n) bytes: the 121 bytes of the fixed fields, 4 bytes of
\* length prefix and n.
C17_DeclaredSizeIsEncodedSize ==
    probe.stage \in {"encoded", "decoded"} =>
        IF probe.kind = "chat"
            THEN Len(probe.encoded) = Chat_LEN
        ELSE /\ Len(probe.encoded)
                  = Message_space(Len(probe.record.encrypted_data))
             /\ Message_space(Len(probe.record.encrypted_data))
                  = 121 + 4 + Len(probe.record.encrypted_data)

\* a Message with 512 bytes of data was encoded into 637 bytes
C17_Witness ==
    /\ probe.stage = "encoded"
    /\ probe.kind = "message"
    /\ Len(probe.record.encrypted_data) = 512
    /\ Len(probe.encoded) = 637

-----------------------------------------------------------------------------
(* C18  WhisperToken: balances add up to total_supply; transfer moves v *)

RECURSIVE SumOfBalances(_, _)
SumOfBalances(self, owners) ==
    IF owners = {} THEN 0
    ELSE LET owner == CHOOSE o \in owners : TRUE
         IN balance_of(self, owner) + SumOfBalances(self, owners \ {owner})

\* every balance after the step is the balance before it, less `value` for
\* `from` and plus `value` for `to`
Moved(from, to, value) ==
    \A owner \in TokenAccounts :
        balance_of(token', owner) =
            balance_of(token, owner)
            - (IF owner = from THEN value ELSE 0)
            + (IF owner = to THEN value ELSE 0)

TransferAsDescribed ==
    Called("transfer") =>
        LET call == last'.instruction
        IN IF call.value <= balance_of(token, call.caller)
           THEN /\ last'.result = "Ok"
                /\ Moved(call.caller, call.to, call.value)
                /\ (call.to = call.caller => token'.balances = token.balances)
           ELSE /\ last'.result = "InsufficientBalance"
                /\ token' = token

\* C18: in every reachable state of the contract the balances of all accounts
\* add up to total_supply; a transfer of a value within the sender's balance
\* succeeds, takes the value from the sender and gives it to the recipient (a
\* transfer to oneself changes no balance); a transfer of more than the
\* sender's balance returns InsufficientBalance and leaves the storage as it
\* was.
C18_BalancesAddUpToSupply ==
    /\ [](SumOfBalances(token, TokenAccounts) = token.total_supply)
    /\ [][TransferAsDescribed]_vars

\* a transfer of part of a balance to another account has succeeded, while an
\* allowance is standing
C18_Witness ==
    /\ pc = "returned"
    /\ last.instruction.tag = "transfer"
    /\ last.result = "Ok"
    /\ last.instruction.value > 0
    /\ last.instruction.to # last.instruction.caller
    /\ balance_of(token, last.instruction.to) >= last.instruction.value
    /\ balance_of(token, last.instruction.caller) > 0
    /\ token.allowances # <<>>

-----------------------------------------------------------------------------
(* C19  WhisperToken: transfer_from needs allowance and balance *)

\* every allowance after the step is the allowance before it, less `value`
\* for the pair (owner, spender)
Spent(owner, spender, value) ==
    \A o \in TokenAccounts, s \in TokenAccounts :
        allowance(token', o, s) =
            allowance(token, o, s)
            - (IF o = owner /\ s = spender THEN value ELSE 0)

\* C19: transfer_from(from, to, v) by caller c succeeds exactly when
\* allowance(from, c) >= v and balance(from) >= v; it then moves v from `from`
\* to `to` and lowers allowance(from, c) by v, leaving every other allowance;
\* with a smaller allowance it returns InsufficientAllowance, with a
\* sufficient allowance and a smaller balance InsufficientBalance, and in both
\* cases the storage is left as it was.
C19_TransferFromNeedsAllowanceAndBalance ==
    [][ Called("transfer_from") =>
          LET call == last'.instruction
              allowed == allowance(token, call.from, call.caller)
              held == balance_of(token, call.from)
          IN /\ (last'.result = "Ok")
                    <=> (allowed >= call.value /\ held >= call.value)
             /\ last'.result = "Ok" =>
                    /\ Moved(call.from, call.to, call.value)
                    /\ Spent(call.from, call.caller, call.value)
                    /\ token'.total_supply = token.total_supply
             /\ allowed < call.value =>
                    /\ last'.result = "InsufficientAllowance"
                    /\ token' = token
             /\ (allowed >= call.value /\ held < call.value) =>
                    /\ last'.result = "InsufficientBalance"
                    /\ token' = token ]_vars

\* a spender has moved part of an allowance from its owner to a third account
C19_Witness ==
    /\ pc = "returned"
    /\ last.instruction.tag = "transfer_from"
    /\ last.result = "Ok"
    /\ last.instruction.value > 0
    /\ last.instruction.caller # last.instruction.from
    /\ last.instruction.to \notin {last.instruction.from, last.instruction.caller}
    /\ allowance(token, last.instruction.from, last.instruction.caller) > 0
    /\ balance_of(token, last.instruction.to) > 0

----------------------------------------------------------------------------
(* C20 *)

\* C20: a message counts as expired at host time now exactly when its
\* expires_at is not 0 and now >= expires_at, negative times included.
C20_ExpiredIffNonZeroAndReached ==
    probe.stage = "answered" =>
        ( probe.expired
            <=> (probe.expires_at # 0 /\ probe.now >= probe.expires_at) )

\* a negative expires_at that the host time has passed was answered "not
\* expired"
C20_Witness ==
    /\ probe.stage = "answered"
    /\ probe.expires_at < 0
    /\ probe.now >= probe.expires_at
    /\ ~probe.expired

----------------------------------------------------------------------------
(* C21 *)

\* the step is a SendMessage that returned Ok
Sent ==
    /\ Called("SendMessage")
    /\ last'.result = "Ok"

\* the Message record the step stored is the one the caller described
MessageWritten ==
    LET call == last'.instruction
        message_key == last'.accounts[3].key
        message == StoredMessage(accounts', message_key)
    IN  /\ IsMessage(accounts', message_key)
        /\ message.chat = last'.accounts[2].key
        /\ message.sender = last'.accounts[1].key
        /\ message.index = StoredChat(accounts, last'.accounts[2].key).message_count
        /\ message.timestamp = call.timestamp
        /\ message.expires_at = call.expires_at
        /\ message.ephemeral_public_key = call.ephemeral_public_key
        /\ message.encrypted_data = call.encrypted_data

\* the Chat record after the step: counter one higher, last_message_at the
\* caller's timestamp, the second party set if this send established it,
\* everything else as before
ChatAdvanced ==
    LET call == last'.instruction
        sender == last'.accounts[1].key
        before == StoredChat(accounts, last'.accounts[2].key)
        after == StoredChat(accounts', last'.accounts[2].key)
        establishes == /\ before.participant2 = Pubkey_default
                       /\ before.participant1 # sender
    IN  /\ IsChat(accounts', last'.accounts[2].key)
        /\ after.participant1 = before.participant1
        /\ after.participant1_public_key = before.participant1_public_key
        /\ after.created_at = before.created_at
        /\ after.message_count = WrappingAddOne(before.message_count)
        /\ U64Lt(before.message_count, after.message_count)
        /\ after.last_message_at = call.timestamp
        /\ after.participant2 =
              IF establishes THEN sender ELSE before.participant2
        /\ after.participant2_public_key =
              IF establishes THEN call.ephemeral_public_key
              ELSE before.participant2_public_key

\* C21: a successful SendMessage stores a Message record with chat = the chat
\* address supplied, sender = the signer, index = the chat's message_count
\* before the call, and the caller's timestamp, expires_at, ephemeral key and
\* payload; in the Chat record message_count is one higher, last_message_at
\* is the timestamp, participant2 and its key are set when the send
\* establishes the second party, and is_initialized, participant1, its key
\* and created_at are as before.
C21_SendMessageEffect ==
    [][Sent => (MessageWritten /\ ChatAdvanced)]_vars

\* the second wallet's first send went through at message_count = u64::MAX:
\* it became participant2, its message carries index u64::MAX, and the
\* chat's counter went down to 0 instead of up by one
C21_Witness ==
    /\ pc = "returned"
    /\ last.instruction.tag = "SendMessage"
    /\ last.result = "Ok"
    /\ last.accounts[1].key = UserKey(2)
    /\ StoredChat(accounts, last.accounts[2].key).participant2 = UserKey(2)
    /\ StoredChat(accounts, last.accounts[2].key).last_message_at
         = last.instruction.timestamp
    /\ StoredMessage(accounts, last.accounts[3].key).index = U64_MAX
    /\ StoredMessage(accounts, last.accounts[3].key).sender = UserKey(2)
    /\ U64Lt(StoredChat(accounts, last.accounts[2].key).message_count,
             StoredMessage(accounts, last.accounts[3].key).index)

----------------------------------------------------------------------------
(* C22 *)

\* the step is a DeleteMessage that returned Ok
Deleted ==
    /\ Called("DeleteMessage")
    /\ last'.result = "Ok"

\* the step left every account but the deleted one and the requester as it
\* was, changed nothing of the requester but its balance, and left every
\* Chat record as it was
OnlyMessageAndBalanceChanged ==
    LET sender_key == last'.accounts[1].key
        message_key == last'.accounts[2].key
    IN  /\ DOMAIN accounts' = DOMAIN accounts
        /\ \A k \in DOMAIN accounts :
              k \notin {sender_key, message_key} => accounts'[k] = accounts[k]
        /\ accounts'[sender_key].data = accounts[sender_key].data
        /\ accounts'[sender_key].owner = accounts[sender_key].owner
        /\ \A k \in DOMAIN accounts :
              IsChat(accounts, k) => accounts'[k] = accounts[k]

\* the index a send stores is none of those the chat record handed out since
\* it was opened
IndexIsNew ==
    LET indices == Recorded(sent, last'.accounts[2].key).indices
        index == StoredMessage(accounts', last'.accounts[3].key).index
    IN  \A i \in 1..Len(indices) : indices[i] # index

\* C22: a successful DeleteMessage changes only the deleted Message account
\* and the balance of the sender: every Chat record, message_count and
\* last_message_at included, and every other account is as before; and no
\* successful SendMessage stores an index that the chat record has handed
\* out before, deleted or not.
C22_DeleteMessageFrame ==
    [][ /\ Deleted => OnlyMessageAndBalanceChanged
        /\ Sent => IndexIsNew ]_vars

\* a DeleteMessage by participant2 went through on the chat account itself:
\* the Chat record is zeroed and its deposit is with participant2
C22_Witness ==
    /\ pc = "returned"
    /\ last.instruction.tag = "DeleteMessage"
    /\ last.result = "Ok"
    /\ last.accounts[2].key \in ChatKeys
    /\ last.accounts[1].key = UserKey(2)
    /\ AccountAt(accounts, last.accounts[2].key).data = Zeros(Chat_LEN)
    /\ AccountAt(accounts, last.accounts[2].key).lamports = 0
    /\ IsMessage(accounts, MessagePda(last.accounts[2].key, U64(0)))

----------------------------------------------------------------------------
(* C23 *)

\* no two initialized Message accounts name the same chat and the same index
IndicesDistinct ==
    \A k1 \in DOMAIN accounts, k2 \in DOMAIN accounts :
        ( /\ k1 # k2
          /\ IsMessage(accounts, k1)
          /\ IsMessage(accounts, k2)
          /\ StoredMessage(accounts, k1).chat = StoredMessage(accounts, k2).chat )
        => StoredMessage(accounts, k1).index # StoredMessage(accounts, k2).index

\* every initialized Message whose chat is an initialized Chat has an index
\* below that chat's message_count
IndicesBelowCount ==
    \A k \in DOMAIN accounts :
        ( /\ IsMessage(accounts, k)
          /\ IsChat(accounts, StoredMessage(accounts, k).chat) )
        => U64Lt(StoredMessage(accounts, k).index,
                 StoredChat(accounts, StoredMessage(accounts, k).chat).message_count)

\* C23: in every reachable state two distinct initialized Message accounts
\* that name the same chat address carry different indices, and every
\* initialized Message that names an initialized chat has an index below
\* that chat's message_count.
C23_IndicesUniqueAndBelowCount ==
    IndicesDistinct /\ IndicesBelowCount

\* a chat opened again at its address, message_count 0, while the message
\* with index 0 written under the chat deleted before it is still stored
C23_Witness ==
    \E c \in ChatKeys :
        /\ IsChat(accounts, c)
        /\ StoredChat(accounts, c).message_count = U64(0)
        /\ Recorded(sent, c).indices = <<>>
        /\ IsMessage(accounts, MessagePda(c, U64(0)))
        /\ StoredMessage(accounts, MessagePda(c, U64(0))).chat = c
        /\ StoredMessage(accounts, MessagePda(c, U64(0))).index = U64(0)

----------------------------------------------------------------------------
(* C24 *)

\* every initialized Chat sits at the address derived from its participant1,
\* so an initiator has one chat address and at most one live chat
OneChatPerInitiator ==
    \A k \in DOMAIN accounts :
        ( /\ IsChat(accounts, k)
          /\ StoredChat(accounts, k).participant1 \in Users )
        => k = ChatPda(StoredChat(accounts, k).participant1)

\* C24: an initiator has at most one live chat, at the address derived from
\* its key; an InitializeChat by an initiator whose derived chat account
\* holds an initialized Chat fails, whatever accounts it is given, and leaves
\* that Chat record and every account and balance as it was.
C24_LiveChatNotReset ==
    /\ []OneChatPerInitiator
    /\ [][ ( /\ Called("InitializeChat")
             /\ Len(last'.accounts) >= 1
             /\ IsChat(accounts, ChatPda(last'.accounts[1].key)) )
           => /\ last'.result # "Ok"
              /\ accounts' = accounts ]_vars

\* a signed InitializeChat with the documented accounts, aimed at the
\* initiator's own chat that holds a message, was refused by the host's
\* account creation
C24_Witness ==
    /\ pc = "returned"
    /\ last.instruction.tag = "InitializeChat"
    /\ SignedBy(last, 3)
    /\ last.accounts[2].key = ChatPda(last.accounts[1].key)
    /\ last.accounts[3].key = SystemProgramId
    /\ last.result = "AccountAlreadyInUse"
    /\ IsChat(accounts, last.accounts[2].key)
    /\ StoredChat(accounts, last.accounts[2].key).message_count = U64(1)

----------------------------------------------------------------------------
(* C25 *)

RECURSIVE SumOfLamports(_, _)
SumOfLamports(accts, keys) ==
    IF keys = {} THEN 0
    ELSE LET key == CHOOSE k \in keys : TRUE
         IN  accts[key].lamports + SumOfLamports(accts, keys \ {key})

\* the lamports of all accounts together: wallets, Chat and Message accounts
TotalLamports(accts) == SumOfLamports(accts, DOMAIN accts)

\* what the wallets held before any account was created
LamportsAtStart == (Cardinality(Users) - 1) * InitialLamports + DustLamports

\* a successful creation took the minimum deposit for `space` bytes from the
\* payer and put it into the new account
DepositPaid(payer_key, new_key, space) ==
    /\ AccountAt(accounts, new_key).lamports = 0
    /\ accounts'[new_key].lamports = minimum_balance(space)
    /\ accounts'[payer_key].lamports
         = accounts[payer_key].lamports - minimum_balance(space)

\* a successful deletion put the whole balance of the closed account into
\* the requester's
DepositReturned(requester_key, closed_key) ==
    /\ accounts'[closed_key].lamports = 0
    /\ accounts'[requester_key].lamports
         = accounts[requester_key].lamports + accounts[closed_key].lamports

DepositsMoveAsDescribed ==
    LET accs == last'.accounts
    IN  /\ TotalLamports(accounts') = TotalLamports(accounts)
        /\ last'.result # "Ok" =>
              \A k \in DOMAIN accounts : accounts'[k].lamports = accounts[k].lamports
        /\ (Called("InitializeChat") /\ last'.result = "Ok") =>
              DepositPaid(accs[1].key, accs[2].key, Chat_LEN)
        /\ (Called("SendMessage") /\ last'.result = "Ok") =>
              DepositPaid(accs[1].key, accs[3].key,
                          Message_space(Len(last'.instruction.encrypted_data)))
        /\ (Called("DeleteChat") /\ last'.result = "Ok") =>
              DepositReturned(accs[1].key, accs[2].key)
        /\ (Called("DeleteMessage") /\ last'.result = "Ok") =>
              DepositReturned(accs[1].key, accs[2].key)

\* C25: the lamports of all accounts together are the same before and after
\* every operation, successful or failed, and the same in every reachable
\* state: a successful InitializeChat or SendMessage moves the minimum
\* deposit of the new account from the payer to it, a successful DeleteChat
\* or DeleteMessage moves the whole balance of the closed account to the
\* requester, and a failed operation moves nothing.
C25_DepositsConserved ==
    /\ [](TotalLamports(accounts) = LamportsAtStart)
    /\ [][(pc = "idle" /\ pc' = "returned") => DepositsMoveAsDescribed]_vars

\* a message was deleted while its chat is open: the sender has the message's
\* deposit back, the chat still holds its own
C25_Witness ==
    /\ pc = "returned"
    /\ last.instruction.tag = "DeleteMessage"
    /\ last.result = "Ok"
    /\ accounts[last.accounts[2].key].lamports = 0
    /\ \E c \in ChatKeys :
          /\ c # last.accounts[2].key
          /\ IsChat(accounts, c)
          /\ accounts[c].lamports = minimum_balance(Chat_LEN)
          /\ TotalLamports(accounts) - accounts[c].lamports
               = SumOfLamports(accounts, Users)

====
